---- MODULE Spec2Model ----
(***************************************************************************)
(* EV battery charging simulator: Cell (src/models/Cell.ts), BatteryPack   *)
(* (src/unnamed/part_003) and ChargingSimulation (src/unnamed/part_004).   *)
(*                                                                         *)
(* Floating point quantities are fixed-point integers:                     *)
(*   state of charge     1/SocUnit          (0 .. SocUnit)                 *)
(*   charge              1/ChargeUnit Ah                                   *)
(*   cell voltage        1/VoltUnit V       (0.8 mV, exact for the curve)  *)
(*   temperature         1/TempUnit degC                                   *)
(*   temperature rate    1/RateUnit degC/h                                 *)
(*   current             1/AmpUnit A                                       *)
(*   pack average SoC    1/PctUnit percent                                 *)
(*   factors             1/Ppm                                             *)
(* Divisions round towards minus infinity.                                 *)
(***************************************************************************)
EXTENDS Integers, Sequences, FiniteSets, TLC

SocUnit    == 10 * 100
ChargeUnit == 10 * 10000
VoltUnit   == 5 * 250
TempUnit   == 10 * 1000
RateUnit   == 10 * 10
AmpUnit    == 10 * 100
PctUnit    == 10 * 100
Ppm        == 1000 * 1000

\* Number.MAX_VALUE, the value of a ceiling that does not apply.
MAX_VALUE == 2000 * Ppm
\* The result of 0/0 in a pack without cells.
NaN == 0 - (1000 * Ppm)
IsNaN(x) == x = NaN

Min2(a, b) == IF a <= b THEN a ELSE b
Max2(a, b) == IF a >= b THEN a ELSE b
Abs(a) == IF a < 0 THEN 0 - a ELSE a

\* floor(a * b / c) for a >= 0, b >= 0, c > 0 without leaving 32 bits.
MulDiv(a, b, c) == (a \div c) * b + ((a % c) * b) \div c

RECURSIVE SumSeq(_)
SumSeq(s) == IF s = <<>> THEN 0 ELSE Head(s) + SumSeq(Tail(s))

MinSeq(s) == CHOOSE x \in {s[i] : i \in DOMAIN s} :
               \A i \in DOMAIN s : x <= s[i]

MaxSeq(s) == CHOOSE x \in {s[i] : i \in DOMAIN s} :
               \A i \in DOMAIN s : x >= s[i]

(***************************************************************************)
(* Bounds of the model.                                                    *)
(***************************************************************************)
\* One modelled series position; the source has 108 of them per 400 V.
SeriesUnit == 1
\* Operations (calls of the driver, callbacks, clock steps) of one run.
MaxOps == 4
\* Scheduled continuations the host queue may hold.
MaxPending == 2
\* Random temperature jitters drawn in one run.
MaxJitter == 1

(***************************************************************************)
(* Cell                                                                    *)
(***************************************************************************)
_capacity == 10
_minVoltage == (34 * VoltUnit) \div 10
_maxVoltage == (42 * VoltUnit) \div 10
_nominalVoltage == (37 * VoltUnit) \div 10
capacityUnits == _capacity * ChargeUnit

\* new Cell(initialSoc, initialTemperature); rf and res are the two
\* Math.random() draws kept by the cell (randomFactor in tenths,
\* internalResistance in milliohm).
NewCell(initialSoc, initialTemperature, rf, res) ==
  [ soc         |-> initialSoc,
    charge      |-> (initialSoc * capacityUnits) \div SocUnit,
    temperature |-> initialTemperature,
    ambient     |-> initialTemperature,
    rf          |-> rf,
    res         |-> res,
    heatingEnabled |-> FALSE,
    wasBalanced |-> FALSE ]

\* set stateOfCharge(value), value in 1/Ppm
ClampSoc(valuePpm) ==
  Max2(0, Min2(SocUnit, valuePpm \div (Ppm \div SocUnit)))

CellVoltage(c) ==
  _minVoltage + ((_maxVoltage - _minVoltage) * c.soc) \div SocUnit

\* get energy(): Wh of one cell
CellEnergy == (_capacity * _nominalVoltage) \div VoltUnit

\* Cell.updateCharge without its two upper clamps, to compare against.
CellUpdateChargeUnclamped(c, current, secs) ==
  LET newCharge == c.charge +
         (current * (950 + c.rf * 10) * secs)
           \div (3600 * ((1000 * AmpUnit) \div ChargeUnit))
  IN [c EXCEPT !.charge = newCharge,
               !.soc = MulDiv(newCharge, SocUnit, capacityUnits)]

\* Cell.updateCharge(current, deltaTimeHours); secs = deltaTimeHours * 3600
CellUpdateCharge(c, current, secs) ==
  LET chargingEfficiency == 950 + c.rf * 10
      chargeAdded == current * chargingEfficiency
      newCharge == c.charge +
         (chargeAdded * secs) \div (3600 * ((1000 * AmpUnit) \div ChargeUnit))
      charge1 == Min2(newCharge, capacityUnits)
      soc1 == IF charge1 >= 0 THEN MulDiv(charge1, SocUnit, capacityUnits)
              ELSE 0 - MulDiv(0 - charge1, SocUnit, capacityUnits)
  IN IF soc1 > SocUnit
       THEN [c EXCEPT !.soc = SocUnit, !.charge = capacityUnits]
       ELSE [c EXCEPT !.soc = soc1, !.charge = charge1]

\* Cell.updateTemperature without the contribution of the heater, to compare
\* against.
CellUpdateTemperatureNoHeater(c, current, secs, cooling, jitter) ==
  LET centi == current \div (AmpUnit \div 100)
      heatGenerated == MulDiv(centi * centi, c.res * 50, 100 * 1000)
      effectiveHeat == MulDiv(heatGenerated, 1150 + c.rf * 10, 1000)
      tempRise == IF current > AmpUnit \div 10
                    THEN MulDiv(effectiveHeat, 7, 10) ELSE 0
      diff == (c.temperature - c.ambient) \div (TempUnit \div RateUnit)
      coolingEffect == 0 - cooling * diff
      ambientEffect == (0 - 5 * diff) \div 100
      total == tempRise + coolingEffect + ambientEffect
  IN [c EXCEPT !.temperature =
        c.temperature + (total * secs * (TempUnit \div RateUnit)) \div 3600
          + jitter]

\* Cell.updateTemperature(current, deltaTimeHours, cooling); jitter is the
\* random variation of the tick (0 when Math.random() >= 0.005).
CellUpdateTemperature(c, current, secs, cooling, jitter) ==
  LET centi == current \div (AmpUnit \div 100)
      heatGenerated == MulDiv(centi * centi, c.res * 50, 100 * 1000)
      effectiveHeat == MulDiv(heatGenerated, 1150 + c.rf * 10, 1000)
      tempRise == IF current > AmpUnit \div 10
                    THEN MulDiv(effectiveHeat, 7, 10) ELSE 0
      heatingPower == IF c.heatingEnabled THEN 50 * RateUnit ELSE 0
      diff == (c.temperature - c.ambient) \div (TempUnit \div RateUnit)
      coolingEffect == IF c.heatingEnabled THEN 0 ELSE 0 - cooling * diff
      ambientEffect == IF c.heatingEnabled THEN 0 ELSE (0 - 5 * diff) \div 100
      total == tempRise + heatingPower + coolingEffect + ambientEffect
  IN [c EXCEPT !.temperature =
        c.temperature + (total * secs * (TempUnit \div RateUnit)) \div 3600
          + jitter]

\* Cell.reset(initialTemperature)
CellReset(c, initialTemperature) ==
  [c EXCEPT !.temperature = initialTemperature,
            !.soc = SocUnit \div 10,
            !.heatingEnabled = FALSE]

(***************************************************************************)
(* BatteryPack                                                             *)
(***************************************************************************)
cellsInSeries400 == SeriesUnit
cellsInSeries800 == 2 * SeriesUnit

\* The Math.random() draws of cell i (0-based) under a seed: randomFactor in
\* tenths and internalResistance in milliohm (0.01 * (0.8 .. 1.2)).
DrawRf(seed, i) ==
  IF seed = 1 THEN 5 ELSE IF i % 2 = 0 THEN 0 ELSE 9
DrawRes(seed, i) ==
  IF seed = 1 THEN 10 ELSE IF i % 2 = 0 THEN 8 ELSE 11

\* Switching the pack's flag without the cells' flags, to compare against.
SetHeatingPackOnly(p, on) ==
  [p EXCEPT !._batteryHeatingEnabled = on]

\* enableHeating() / disableHeating()
SetHeating(p, on) ==
  [p EXCEPT !._batteryHeatingEnabled = on,
            !.cells = [i \in DOMAIN p.cells |->
                         [p.cells[i] EXCEPT !.heatingEnabled = on]]]
enableHeating(p) == SetHeating(p, TRUE)
disableHeating(p) == SetHeating(p, FALSE)

\* constructor: the number of parallel strings for a target energy (Wh)
CtorCellsInParallel(totalWh, systemVoltage) ==
  LET totalCellsNeeded100 == (totalWh * 100) \div CellEnergy
      floor800 == totalCellsNeeded100 \div (cellsInSeries800 * 100)
      cellsInParallel800 == IF floor800 % 2 # 0 THEN floor800 + 1 ELSE floor800
  IN IF systemVoltage = 400 THEN cellsInParallel800 * 2 ELSE cellsInParallel800

CtorCellsInSeries(systemVoltage) ==
  IF systemVoltage = 400 THEN cellsInSeries400 ELSE cellsInSeries800

\* new BatteryPack(o) with the random draws fixed by seed
NewBatteryPack(o, seed) ==
  LET series == CtorCellsInSeries(o.systemVoltage)
      parallel == CtorCellsInParallel(o.totalWh, o.systemVoltage)
      totalCells == series * parallel
      p0 == [ cells |-> [i \in 1..totalCells |->
                           NewCell(0, o.initialTemperature,
                                   DrawRf(seed, i - 1), DrawRes(seed, i - 1))],
              _systemVoltage |-> o.systemVoltage,
              _maxCRate |-> o.maxCRate,
              _coolingPower |-> o.coolingPower,
              _maxCarPower |-> o.maxCarPower,
              _limitingFactor |-> "null",
              _initialTemperature |-> o.initialTemperature,
              _batteryHeatingEnabled |-> FALSE,
              _cellsInSeries |-> series,
              _cellsInParallel |-> parallel,
              _balancingIntensity |-> 0,
              _avgSoc |-> 0,
              _cellsBalanced |-> 0 ]
  IN IF o.batteryHeatingEnabled THEN enableHeating(p0) ELSE p0

\* get totalVoltage, in 1/VoltUnit V
totalVoltage(p) ==
  IF p._cellsInParallel = 0 THEN NaN
  ELSE SumSeq([s \in 1..p._cellsInSeries |->
         SumSeq([q \in 1..p._cellsInParallel |->
            LET cellIndex == (s - 1) + (q - 1) * p._cellsInSeries
            IN IF cellIndex < Len(p.cells)
                 THEN CellVoltage(p.cells[cellIndex + 1]) ELSE 0])
         \div p._cellsInParallel])

\* get energyCapacityKWh, in Wh
energyCapacityWh(p) ==
  (IF Len(p.cells) > 0 THEN CellEnergy ELSE 0) * Len(p.cells)

averageTemperature(p) ==
  IF Len(p.cells) = 0 THEN NaN
  ELSE SumSeq([i \in DOMAIN p.cells |-> p.cells[i].temperature])
         \div Len(p.cells)

maxTemperature(p) ==
  IF Len(p.cells) = 0 THEN 0 - MAX_VALUE
  ELSE MaxSeq([i \in DOMAIN p.cells |-> p.cells[i].temperature])

averageSoc(p) == p._avgSoc

\* calculateAvgSoc(): the two accumulators of the loop
totalEnergyOf(cells) ==
  SumSeq([i \in DOMAIN cells |->
            cells[i].soc * _capacity * CellVoltage(cells[i])])
totalCapacityOf(cells) ==
  SumSeq([i \in DOMAIN cells |-> _capacity * CellVoltage(cells[i])])

\* calculateAvgSoc(): the value stored in _avgSoc, in 1/PctUnit percent
AvgSocArithmetic(cells) ==
  IF Len(cells) = 0 THEN NaN
  ELSE MulDiv(SumSeq([i \in DOMAIN cells |-> cells[i].soc]),
              (100 * PctUnit) \div SocUnit, Len(cells))
calculateAvgSoc(cells) ==
  IF Len(cells) = 0 THEN NaN
  ELSE MulDiv(totalEnergyOf(cells), (100 * PctUnit) \div SocUnit,
              totalCapacityOf(cells))

countCellsBalanced(cells) ==
  Cardinality({i \in DOMAIN cells : cells[i].wasBalanced})

calculateAvgValues(p) ==
  [p EXCEPT !._avgSoc = calculateAvgSoc(p.cells),
            !._cellsBalanced = countCellsBalanced(p.cells)]

\* Math.exp(-8 * x) for x = k / 100, k = 0 .. 30, in 1/Ppm
ExpTable ==
  << 1000000, 923116, 852144, 786628, 726149, 670320, 618783, 571209,
     527292, 486752, 449329, 414783, 382893, 353455, 326280, 301194,
     278037, 256661, 236928, 218712, 201897, 186374, 172045, 158817,
     146607, 135335, 124930, 115325, 106459, 98274, 90718 >>

\* Math.exp(-8 * (avgSoc / 100 - 0.7)) for 70 < avgSoc <= 100, linear
\* between the entries of the table
socFactorOf(avgSoc) ==
  LET over == avgSoc - 70 * PctUnit
      k == over \div PctUnit
      frac == over % PctUnit
  IN IF frac = 0 THEN ExpTable[k + 1]
     ELSE ExpTable[k + 1] -
            ((ExpTable[k + 1] - ExpTable[k + 2]) * frac) \div PctUnit

\* maxChargerCurrent * factor, factor in 1/Ppm, result in 1/AmpUnit A
Scaled(maxChargerCurrent, factor) ==
  (maxChargerCurrent * factor) \div (Ppm \div AmpUnit)

\* The seven ceilings of calculateChargingCurrent, in 1/AmpUnit A;
\* maxChargerCurrent is in A.
chargerLimit(maxChargerCurrent) == maxChargerCurrent * AmpUnit

cRateLimit(p) ==
  IF IsNaN(totalVoltage(p)) THEN NaN
  ELSE MulDiv(p._maxCRate * energyCapacityWh(p) * AmpUnit, VoltUnit,
              totalVoltage(p))

powerLimit(p) ==
  IF p._maxCarPower = 0 THEN MAX_VALUE
  ELSE IF IsNaN(totalVoltage(p)) THEN NaN
  ELSE MulDiv(p._maxCarPower * 1000 * AmpUnit, VoltUnit, totalVoltage(p))

IsCold(p) ==
  ~IsNaN(averageTemperature(p)) /\ averageTemperature(p) < 20 * TempUnit

\* The cold factor without the clamp of the temperature at 0 degC and with a
\* cap at 1 in place of the floor of 0.02, to compare against.
tempFactorUnclamped(avgTemp) ==
  LET x == (avgTemp + 5 * TempUnit) \div ((20 * TempUnit) \div 1000)
  IN Min2(Ppm, x * x)

tempFactorOf(avgTemp) ==
  LET x == (Max2(0, avgTemp) + 5 * TempUnit) \div ((20 * TempUnit) \div 1000)
  IN Max2(Ppm \div 50, x * x)

coldTemperatureLimit(p, maxChargerCurrent) ==
  IF IsCold(p)
    THEN Scaled(maxChargerCurrent, tempFactorOf(averageTemperature(p)))
    ELSE MAX_VALUE

\* The reduction factor with the absolute value in place of the lower
\* clamp at 0, to compare against.
reductionFactorAbs(maxTemp) ==
  Abs(Ppm - (maxTemp - 40 * TempUnit) * (Ppm \div (25 * TempUnit)))

reductionFactorOf(maxTemp) ==
  Max2(0, Ppm - (maxTemp - 40 * TempUnit) * (Ppm \div (25 * TempUnit)))

temperatureLimit(p, maxChargerCurrent) ==
  IF maxTemperature(p) > 40 * TempUnit
    THEN Scaled(maxChargerCurrent, reductionFactorOf(maxTemperature(p)))
    ELSE MAX_VALUE

socLimit(p, maxChargerCurrent) ==
  IF ~IsNaN(averageSoc(p)) /\ averageSoc(p) > 70 * PctUnit
    THEN Scaled(maxChargerCurrent, Min2(Ppm, socFactorOf(averageSoc(p))))
    ELSE MAX_VALUE

\* The balancing ceiling with twice the penalty per unit of intensity, to
\* compare against.
balancingLimitDoubled(p, maxChargerCurrent) ==
  IF p._balancingIntensity > 0
    THEN Scaled(maxChargerCurrent, Ppm - p._balancingIntensity * 100)
    ELSE MAX_VALUE

balancingLimit(p, maxChargerCurrent) ==
  IF p._balancingIntensity > 0
    THEN Scaled(maxChargerCurrent, Ppm - p._balancingIntensity * 50)
    ELSE MAX_VALUE

\* Math.min over a sequence: NaN if any argument is NaN
MathMin(s) ==
  IF \E i \in DOMAIN s : IsNaN(s[i]) THEN NaN ELSE MinSeq(s)

Ceilings(p, maxChargerCurrent) ==
  << chargerLimit(maxChargerCurrent), cRateLimit(p), powerLimit(p),
     temperatureLimit(p, maxChargerCurrent),
     coldTemperatureLimit(p, maxChargerCurrent),
     balancingLimit(p, maxChargerCurrent),
     socLimit(p, maxChargerCurrent) >>

\* Math.min over the first six ceilings only, to compare against.
limitedCurrentWithoutSoc(p, maxChargerCurrent) ==
  MathMin(SubSeq(Ceilings(p, maxChargerCurrent), 1, 6))

\* the value returned by calculateChargingCurrent
limitedCurrentOf(p, maxChargerCurrent) ==
  MathMin(Ceilings(p, maxChargerCurrent))

Near(a, b) == ~IsNaN(a) /\ ~IsNaN(b) /\ Abs(a - b) < AmpUnit \div 10

\* determineLimitingFactor testing the SoC ceiling before the balancing
\* ceiling, to compare against.
determineLimitingFactorSocFirst(limitedCurrent, chargerMax, cRate, power, temp, coldTemp, balancing, soc) ==
  IF Near(limitedCurrent, chargerMax) THEN "Charger"
  ELSE IF Near(limitedCurrent, cRate) THEN "C-rate"
  ELSE IF Near(limitedCurrent, power) THEN "Car"
  ELSE IF Near(limitedCurrent, temp) THEN "Temperature (hot)"
  ELSE IF Near(limitedCurrent, coldTemp) THEN "Temperature (cold)"
  ELSE IF Near(limitedCurrent, soc) THEN "SoC"
  ELSE IF Near(limitedCurrent, balancing) THEN "Cell balancing"
  ELSE "Unknown limit"

determineLimitingFactor(limitedCurrent, chargerMax, cRate, power, temp, coldTemp, balancing, soc) ==
  IF Near(limitedCurrent, chargerMax) THEN "Charger"
  ELSE IF Near(limitedCurrent, cRate) THEN "C-rate"
  ELSE IF Near(limitedCurrent, power) THEN "Car"
  ELSE IF Near(limitedCurrent, temp) THEN "Temperature (hot)"
  ELSE IF Near(limitedCurrent, coldTemp) THEN "Temperature (cold)"
  ELSE IF Near(limitedCurrent, balancing) THEN "Cell balancing"
  ELSE IF Near(limitedCurrent, soc) THEN "SoC"
  ELSE "Unknown limit"

\* calculateChargingCurrent(maxChargerCurrent): the pack after the call
\* (heating switched off at 20 degC or more, limiting factor stored)
LimitingFactorOf(c) ==
  determineLimitingFactor(MathMin(c), c[1], c[2], c[3], c[4], c[5], c[6],
                          c[7])
calculateChargingCurrent(p, maxChargerCurrent) ==
  [(IF ~IsCold(p) /\ p._batteryHeatingEnabled THEN disableHeating(p) ELSE p)
     EXCEPT !._limitingFactor = LimitingFactorOf(Ceilings(p, maxChargerCurrent))]

\* get limitingFactor
limitingFactor(p) ==
  IF p._limitingFactor = "null" THEN "Not charging" ELSE p._limitingFactor

\* balanceCells()
balanceCells(p) ==
  IF Len(p.cells) = 0 THEN [p EXCEPT !._balancingIntensity = 0]
  ELSE
  LET socs == [i \in DOMAIN p.cells |-> p.cells[i].soc]
      minSoc == MinSeq(socs)
      maxSoc == MaxSeq(socs)
      spread == (maxSoc - minSoc) * (Ppm \div SocUnit)
      limit == Ppm \div 10 - (averageSoc(p) * (Ppm \div 1000)) \div PctUnit
      \* 0.002 * _avgSoc * (maxSoc - minSoc), in 1/Ppm
      intensity == ((maxSoc - minSoc) * 2 * p._avgSoc)
                     \div ((1000 * PctUnit * SocUnit) \div Ppm)
  IN IF spread > limit
       THEN [p EXCEPT
              !._balancingIntensity = intensity,
              !.cells = [i \in DOMAIN p.cells |->
                 LET cell == p.cells[i]
                 IN IF cell.soc * 100 * (Ppm \div SocUnit)
                         > p._avgSoc * (Ppm \div PctUnit) + limit
                      THEN [cell EXCEPT
                              !.soc = ClampSoc(cell.soc * (Ppm \div SocUnit)
                                                 - intensity),
                              !.wasBalanced = TRUE]
                      ELSE [cell EXCEPT !.wasBalanced = FALSE]]]
       ELSE [p EXCEPT !._balancingIntensity = 0]

\* BatteryPack.updateTemperature(current, deltaTimeHours); jit names the
\* cell (0 for none) whose Math.random() gives a variation, and its size
updateTemperature(p, current, secs, jit) ==
  IF Len(p.cells) = 0 THEN p
  ELSE
  LET currentPerParallelGroup == current \div p._cellsInParallel
  IN [p EXCEPT !.cells = [i \in DOMAIN p.cells |->
        CellUpdateTemperature(p.cells[i], currentPerParallelGroup, secs,
                              p._coolingPower,
                              IF jit.cell = i THEN jit.delta ELSE 0)]]

\* The loops of BatteryPack.updateCharge over the series positions s and
\* the parallel strings p: the cell at index s + p * cellsInSeries gets
\* Cell.updateCharge with the current of one parallel group.  visits[i] is
\* the number of pairs (s, p) whose index is the cell i.
CellVisits(p, i) ==
  Cardinality({ sp \in (0 .. p._cellsInSeries - 1) \X (0 .. p._cellsInParallel - 1) : sp[1] + sp[2] * p._cellsInSeries = i - 1 })

RECURSIVE CellUpdateChargeTimes(_, _, _, _)
CellUpdateChargeTimes(cell, current, secs, n) ==
  IF n <= 0 THEN cell
  ELSE CellUpdateChargeTimes(CellUpdateCharge(cell, current, secs), current, secs, n - 1)

\* The loops visiting the first parallel string only, to compare against.
chargeCellsFirstString(p, current, secs) ==
  IF Len(p.cells) = 0 THEN p
  ELSE
  LET currentPerParallelGroup == current \div p._cellsInParallel
  IN [p EXCEPT !.cells = [i \in DOMAIN p.cells |->
        IF i <= p._cellsInSeries
          THEN CellUpdateCharge(p.cells[i], currentPerParallelGroup, secs)
          ELSE p.cells[i]]]

chargeCells(p, current, secs) ==
  IF Len(p.cells) = 0 THEN p
  ELSE
  LET currentPerParallelGroup == current \div p._cellsInParallel
  IN [p EXCEPT !.cells = [i \in DOMAIN p.cells |->
        CellUpdateChargeTimes(p.cells[i], currentPerParallelGroup, secs,
                              CellVisits(p, i))]]

\* BatteryPack.updateCharge(current, deltaTimeHours)
updateCharge(p, current, secs, jit) ==
  balanceCells(updateTemperature(chargeCells(p, current, secs), current,
                                 secs, jit))

\* BatteryPack.reset()
PackReset(p) ==
  LET p1 == [p EXCEPT
               !.cells = [i \in DOMAIN p.cells |->
                            CellReset(p.cells[i], p._initialTemperature)],
               !._limitingFactor = "null",
               !._balancingIntensity = 0,
               !._avgSoc = 0,
               !._cellsBalanced = 0]
  IN IF p._batteryHeatingEnabled THEN enableHeating(p1)
     ELSE disableHeating(p1)

(***************************************************************************)
(* ChargingSimulation                                                      *)
(***************************************************************************)
_timeStep == 1

\* addDataPoint(current) / the point pushed by step() and reset()
DataPoint(time, soc, current, p) ==
  [ time |-> time, soc |-> soc, current |-> current,
    voltage |-> totalVoltage(p), temperature |-> averageTemperature(p) ]

\* The cap keeping the entries at odd indices (index % 2 === 1), to compare
\* against.
EveryOtherOdd(points) ==
  [k \in 1..(Len(points) \div 2) |-> points[2 * k]]

\* the history cap of addDataPoint: keep the entries at even indices
EveryOther(points) ==
  [k \in 1..((Len(points) + 1) \div 2) |-> points[2 * k - 1]]

addDataPoint(s, p, current) ==
  LET pushed == Append(s._dataPoints,
                       DataPoint(s._elapsedTime, averageSoc(p), current, p))
  IN [s EXCEPT !._dataPoints =
        IF Len(pushed) > 1000 THEN EveryOther(pushed) ELSE pushed]

\* new ChargingSimulation(batteryPack, chargerType)
NewChargingSimulation(p, chargerType) ==
  addDataPoint([ _dataPoints |-> <<>>,
                 _isRunning |-> FALSE,
                 _elapsedTime |-> 0,
                 _timeAcceleration |-> 1,
                 _chargerType |-> chargerType,
                 _chargerMaxCurrent |->
                    IF chargerType = "Supercharger" THEN 625 ELSE 500,
                 _lastUpdateTime |-> 0,
                 _fullPointSoC |-> 0 ], p, 0)

\* step(): st = [pack, sim]
\* The end of a step() that pushes a data point on every tick, to compare
\* against.
RecordStepAlways(s, current, p) ==
  [ pack |-> p,
    sim |-> [s EXCEPT
               !._dataPoints = Append(@,
                  DataPoint(s._elapsedTime, averageSoc(p), current, p)),
               !._elapsedTime = @ + _timeStep] ]

\* The end of a step() that does not advance _fullPointSoC after a push, to
\* compare against.
RecordStepSamePoint(s, current, p) ==
  [ pack |-> p,
    sim |-> [ (IF ~IsNaN(averageSoc(p))
                    /\ s._fullPointSoC * PctUnit < averageSoc(p)
                 THEN [s EXCEPT
                         !._dataPoints = Append(@,
                            DataPoint(s._elapsedTime,
                                      s._fullPointSoC * PctUnit, current, p))]
                 ELSE s)
              EXCEPT !._elapsedTime = @ + _timeStep ] ]

\* the end of step(): with the pack p after updateCharge and
\* calculateAvgValues, push a data point when the average SoC passed the
\* next full percent, then advance the elapsed time
RecordStep(s, current, p) ==
  [ pack |-> p,
    sim |-> [ (IF ~IsNaN(averageSoc(p))
                    /\ s._fullPointSoC * PctUnit < averageSoc(p)
                 THEN [s EXCEPT
                         !._dataPoints = Append(@,
                            DataPoint(s._elapsedTime,
                                      s._fullPointSoC * PctUnit, current, p)),
                         !._fullPointSoC = @ + 1]
                 ELSE s)
              EXCEPT !._elapsedTime = @ + _timeStep ] ]

\* step() with the value current returned by calculateChargingCurrent
StepWith(st, current, jit) ==
  RecordStep(st.sim, current,
    calculateAvgValues(
      updateCharge(
        calculateChargingCurrent(st.pack, st.sim._chargerMaxCurrent),
        current, _timeStep, jit)))

Step(st, jit) ==
  StepWith(st, limitedCurrentOf(st.pack, st.sim._chargerMaxCurrent), jit)

\* The test with a strict comparison, to compare against.
StopWhenAboveFull(st) ==
  IF ~IsNaN(averageSoc(st.pack)) /\ averageSoc(st.pack) > 100 * PctUnit
    THEN [st EXCEPT !.sim._isRunning = FALSE]
    ELSE st

\* the test after step() in the loop of simulationLoop()
StopWhenFull(st) ==
  IF ~IsNaN(averageSoc(st.pack)) /\ averageSoc(st.pack) >= 100 * PctUnit
    THEN [st EXCEPT !.sim._isRunning = FALSE]
    ELSE st

\* one iteration of the loop of simulationLoop(): step(), then stop when full
StepAndCheck(st, jit) == StopWhenFull(Step(st, jit))

NoJitter == [cell |-> 0, delta |-> 0]

\* the for loop of simulationLoop(): n further iterations unless it broke
RECURSIVE RunSteps(_, _)
RunSteps(st, n) ==
  IF n <= 0 \/ ~st.sim._isRunning THEN st
  ELSE IF n = 1 THEN StepAndCheck(st, NoJitter)
  ELSE RunSteps(RunSteps(st, n \div 2), n - n \div 2)

\* The number of ticks without the acceleration factor, to compare against.
stepsToRunUnaccelerated(deltaMs, timeAcceleration) ==
  Max2(1, deltaMs \div (1000 * _timeStep))

stepsToRunOf(deltaMs, timeAcceleration) ==
  Max2(1, (deltaMs * timeAcceleration) \div (1000 * _timeStep))

\* simulationLoop() without the test of the running flag at its entry,
\* to compare against.
simulationLoopUnguarded(st, t, jit) ==
  RunSteps(StepAndCheck([st EXCEPT !.sim._lastUpdateTime = t], jit),
           stepsToRunOf(t - st.sim._lastUpdateTime,
                        st.sim._timeAcceleration) - 1)

\* simulationLoop() entered at wall clock t: the state after the loop;
\* requestAnimationFrame is called iff the result is still running
simulationLoop(st, t, jit) ==
  IF ~st.sim._isRunning THEN st
  ELSE RunSteps(StepAndCheck([st EXCEPT !.sim._lastUpdateTime = t], jit),
                stepsToRunOf(t - st.sim._lastUpdateTime,
                             st.sim._timeAcceleration) - 1)

(***************************************************************************)
(* The program: one pack, one driver, the host's clock and callback queue  *)
(***************************************************************************)
VARIABLES
  opts,      \* the options the pack was constructed with
  pack,      \* the BatteryPack
  sim,       \* the ChargingSimulation
  now,       \* Date.now(), in ms
  pending,   \* requestAnimationFrame callbacks not yet fired
  ops,       \* operations taken so far
  jitters,   \* random temperature variations drawn so far
  lastOp     \* the operation that led to this state

vars == << opts, pack, sim, now, pending, ops, jitters, lastOp >>

\* Wall clock steps of the host, in ms: a frame and a delayed callback.
FrameMs == 16
HiccupMs == 2500
WallDeltas == {FrameMs, HiccupMs}
Accelerations == {1, 100}

\* The smallest energy (Wh) that gives a pack with cells.
MinWh == CellEnergy * cellsInSeries800

BaseOptions ==
  [ totalWh |-> MinWh, systemVoltage |-> 800, maxCRate |-> 2,
    coolingPower |-> 1, maxCarPower |-> 0,
    initialTemperature |-> 25 * TempUnit, batteryHeatingEnabled |-> FALSE,
    seed |-> 2, chargerType |-> "Supercharger" ]

Configurations ==
  { BaseOptions,
    [BaseOptions EXCEPT !.maxCRate = 100, !.coolingPower = 3000],
    [BaseOptions EXCEPT !.maxCRate = 100, !.coolingPower = 3000,
                        !.systemVoltage = 400, !.seed = 1,
                        !.batteryHeatingEnabled = TRUE,
                        !.chargerType = "Standard CCS"],
    [BaseOptions EXCEPT !.initialTemperature = 0 - 5 * TempUnit,
                        !.batteryHeatingEnabled = TRUE],
    [BaseOptions EXCEPT !.initialTemperature = 0 - 5 * TempUnit],
    [BaseOptions EXCEPT !.maxCarPower = 1, !.systemVoltage = 400,
                        !.totalWh = 3 * MinWh, !.maxCRate = 100],
    [BaseOptions EXCEPT !.totalWh = MinWh - 1] }

Init ==
  /\ opts \in Configurations
  /\ pack = NewBatteryPack(opts, opts.seed)
  /\ sim = NewChargingSimulation(pack, opts.chargerType)
  /\ now = 0
  /\ pending = 0
  /\ ops = 0
  /\ jitters = 0
  /\ lastOp = "new"

JitterChoices ==
  {NoJitter} \cup
  (IF jitters < MaxJitter /\ Len(pack.cells) > 0
     THEN {[cell |-> 1, delta |-> TempUnit \div 4],
           [cell |-> 1, delta |-> 0 - TempUnit \div 4]}
     ELSE {})

\* the callbacks requested by a call of simulationLoop() that was entered
\* running and returned st
Requested(st) == [st |-> st, requested |-> IF st.sim._isRunning THEN 1 ELSE 0]

\* start() without the test of the running flag, to compare against.
StartOfUnguarded(st, t, jit) ==
  Requested(simulationLoop([st EXCEPT !.sim._isRunning = TRUE,
                                      !.sim._lastUpdateTime = t], t, jit))

\* start() that begins a fresh run (elapsed time 0, empty history), to
\* compare against.
StartOfFromScratch(st, t, jit) ==
  IF st.sim._isRunning THEN [st |-> st, requested |-> 0]
  ELSE Requested(simulationLoop([st EXCEPT !.sim._isRunning = TRUE,
                                           !.sim._lastUpdateTime = t,
                                           !.sim._elapsedTime = 0,
                                           !.sim._dataPoints = << >>], t, jit))

\* start() on the state st at wall clock t: the state after the call and
\* the number of callbacks it requested
StartOf(st, t, jit) ==
  IF st.sim._isRunning THEN [st |-> st, requested |-> 0]
  ELSE Requested(simulationLoop([st EXCEPT !.sim._isRunning = TRUE,
                                           !.sim._lastUpdateTime = t], t, jit))

\* the end of ChargingSimulation.reset() on the pack p after its reset
ResetWith(s, p) ==
  [ pack |-> p,
    sim |-> [s EXCEPT !._elapsedTime = 0,
                      !._dataPoints = << DataPoint(0, averageSoc(p), 0, p) >>] ]

\* ChargingSimulation.reset()
reset(st) == ResetWith(st.sim, PackReset(st.pack))

\* stop()
StopOf(st) ==
  IF ~st.sim._isRunning THEN st ELSE [st EXCEPT !.sim._isRunning = FALSE]

\* setTimeAcceleration(a) that only stores the factor, without the restart,
\* to compare against.
setTimeAccelerationNoRestart(st, a, t) ==
  [st |-> [st EXCEPT !.sim._timeAcceleration = a], requested |-> 0]

\* setTimeAcceleration(a) at wall clock t: stop() and start() when running
setTimeAcceleration(st, a, t) ==
  IF st.sim._isRunning
    THEN StartOf(StopOf([st EXCEPT !.sim._timeAcceleration = a]), t, NoJitter)
    ELSE [st |-> [st EXCEPT !.sim._timeAcceleration = a], requested |-> 0]

Start ==
  /\ ops < MaxOps
  /\ ops' = ops + 1
  /\ sim._isRunning \/ pending < MaxPending
  /\ \E r \in {StartOf([pack |-> pack, sim |-> sim], now, NoJitter)} :
        /\ pack' = r.st.pack
        /\ sim' = r.st.sim
        /\ pending' = pending + r.requested
  /\ lastOp' = IF sim._isRunning THEN "start:running" ELSE "start"
  /\ UNCHANGED << opts, now, jitters >>

Stop ==
  /\ ops < MaxOps
  /\ ops' = ops + 1
  /\ sim' = StopOf([pack |-> pack, sim |-> sim]).sim
  /\ lastOp' = IF sim._isRunning THEN "stop" ELSE "stop:stopped"
  /\ UNCHANGED << opts, pack, now, pending, jitters >>

Reset ==
  /\ ops < MaxOps
  /\ ops' = ops + 1
  /\ \E st1 \in {reset([pack |-> pack, sim |-> sim])} :
        /\ pack' = st1.pack
        /\ sim' = st1.sim
  /\ lastOp' = "reset"
  /\ UNCHANGED << opts, now, pending, jitters >>

SetTimeAcceleration(a) ==
  /\ ops < MaxOps
  /\ ops' = ops + 1
  /\ ~sim._isRunning \/ pending < MaxPending
  /\ \E r \in {setTimeAcceleration([pack |-> pack, sim |-> sim], a, now)} :
        /\ pack' = r.st.pack
        /\ sim' = r.st.sim
        /\ pending' = pending + r.requested
  /\ lastOp' = "setTimeAcceleration"
  /\ UNCHANGED << opts, now, jitters >>

\* the host fires one scheduled callback d ms later; a random temperature
\* variation is drawn on the first tick of a regular frame
Callback(d, jit) ==
  /\ pending > 0
  /\ jit = NoJitter \/ d = FrameMs
  /\ ops < MaxOps
  /\ now' = now + d
  /\ ops' = ops + 1
  /\ jitters' = IF jit = NoJitter THEN jitters ELSE jitters + 1
  /\ \E st1 \in {simulationLoop([pack |-> pack, sim |-> sim], now + d, jit)} :
        /\ pack' = st1.pack
        /\ sim' = st1.sim
        /\ pending' = IF st1.sim._isRunning THEN pending ELSE pending - 1
  /\ lastOp' = IF sim._isRunning THEN "callback" ELSE "callback:stopped"
  /\ UNCHANGED opts

\* wall clock time passes without a callback
Wait(d) ==
  /\ ops < MaxOps
  /\ now' = now + d
  /\ ops' = ops + 1
  /\ lastOp' = "wait"
  /\ UNCHANGED << opts, pack, sim, pending, jitters >>

Next ==
  \/ Start
  \/ Stop
  \/ Reset
  \/ \E a \in Accelerations : SetTimeAcceleration(a)
  \/ \E d \in WallDeltas : \E jit \in JitterChoices : Callback(d, jit)
  \/ Wait(FrameMs)

Spec == Init /\ [][Next]_vars

\* The same driver under a host that delays callbacks for a long time (a
\* throttled background tab): one callback at acceleration 100 is a batch
\* of more than 1000 ticks.
LongMs == 10500

InitLong == Init /\ opts = BaseOptions

NextLong ==
  \/ Start
  \/ Stop
  \/ Reset
  \/ SetTimeAcceleration(100)
  \/ Callback(LongMs, NoJitter)
  \/ Wait(FrameMs)

SpecLong == InitLong /\ [][NextLong]_vars

\* The fast-charging pack under a host whose callback comes late by just the
\* time that, at acceleration 100, leaves the pack one tick short of full.
FillMs == 2830

InitFill ==
  Init /\ opts = [BaseOptions EXCEPT !.maxCRate = 100, !.coolingPower = 3000]

NextFill ==
  \/ Start
  \/ Stop
  \/ Reset
  \/ \E a \in Accelerations : SetTimeAcceleration(a)
  \/ \E d \in {FrameMs, FillMs} : Callback(d, NoJitter)
  \/ Wait(FrameMs)

SpecFill == InitFill /\ [][NextFill]_vars

\* The same pack under a host whose callback comes late by the time that,
\* at acceleration 100, ends shortly after the balancing pass first
\* activates, or on the tick at which the balancing ceiling and the SoC
\* ceiling cross.
BalanceMs == 650
TieMs == 1200

NextTie ==
  \/ Start
  \/ Stop
  \/ Reset
  \/ \E a \in Accelerations : SetTimeAcceleration(a)
  \/ \E d \in {FrameMs, BalanceMs, TieMs} : Callback(d, NoJitter)
  \/ Wait(FrameMs)

SpecTie == InitFill /\ [][NextTie]_vars

\* addDataPoint applied to histories at the cap: the driver holds a history
\* of 1000 entries or a few less, with one entry per second, and
\* addDataPoint is called with one of a few currents.
MaxShort == 2

AppendCurrents == {0, 250 * AmpUnit, 500 * AmpUnit}

LongHistory(n, p) ==
  [i \in 1..n |-> DataPoint((i - 1) * _timeStep, averageSoc(p), 0, p)]

InitCap ==
  /\ opts = BaseOptions
  /\ pack = NewBatteryPack(opts, opts.seed)
  /\ \E short \in 0..MaxShort :
       sim = [NewChargingSimulation(pack, opts.chargerType) EXCEPT
                !._dataPoints = LongHistory(1000 - short, pack)]
  /\ now = 0
  /\ pending = 0
  /\ ops = 0
  /\ jitters = 0
  /\ lastOp = "new"

AddDataPoint(c) ==
  /\ ops < MaxOps
  /\ ops' = ops + 1
  /\ sim' = addDataPoint(sim, pack, c)
  /\ lastOp' = "addDataPoint"
  /\ UNCHANGED << opts, pack, now, pending, jitters >>

NextCap == \E c \in AppendCurrents : AddDataPoint(c)

SpecCap == InitCap /\ [][NextCap]_vars

TypeOK ==
  /\ pending \in 0..MaxPending
  /\ ops \in 0..MaxOps

(***************************************************************************)
(* Properties                                                              *)
(***************************************************************************)
\* The current one parallel string gets on the next tick of the driver.
NextStringCurrent ==
  limitedCurrentOf(pack, sim._chargerMaxCurrent) \div pack._cellsInParallel

\* The charge (1/ChargeUnit Ah) one tick at the current adds to the cell c.
ChargeAddedTo(c, current) ==
  (current * (950 + c.rf * 10) * _timeStep) \div 36000

\* The next tick would take the cell c beyond its capacity.
WouldOvercharge(c) ==
  c.charge + ChargeAddedTo(c, NextStringCurrent) > capacityUnits

\* C1: at every observation point (after construction, after every tick
\* with its updateCharge and balancing, after reset) every cell's state of
\* charge lies in [0, 1]; an updateCharge whose current would take a cell
\* beyond its capacity leaves the state of charge at exactly 1.
C1_SocWithinBounds ==
  \A i \in DOMAIN pack.cells :
    /\ pack.cells[i].soc \in 0..SocUnit
    /\ \A updated \in {CellUpdateCharge(pack.cells[i], NextStringCurrent,
                                        _timeStep)} :
         /\ updated.soc \in 0..SocUnit
         /\ WouldOvercharge(pack.cells[i]) =>
              updated.soc = SocUnit /\ updated.charge = capacityUnits

\* A tick has run, not every cell is full yet, and the next updateCharge
\* overcharges a cell, which is held at state of charge 1.
C1_Witness ==
  /\ lastOp = "callback"
  /\ \E i \in DOMAIN pack.cells :
       /\ WouldOvercharge(pack.cells[i])
       /\ CellUpdateCharge(pack.cells[i], NextStringCurrent, _timeStep).soc
            = SocUnit
  /\ \E i \in DOMAIN pack.cells : pack.cells[i].soc < SocUnit

\* Values of maxChargerCurrent (A): the two charger types and others.
ChargerCurrents == {0, 250, 500, 625}

\* The seven ceilings of the pack for a charger current, as a set.
CeilingSet(p, m) ==
  { chargerLimit(m), cRateLimit(p), powerLimit(p), temperatureLimit(p, m),
    coldTemperatureLimit(p, m), balancingLimit(p, m), socLimit(p, m) }

\* C2: for every pack state and every maxChargerCurrent,
\* calculateChargingCurrent returns the minimum of its seven ceilings
\* (charger, C-rate, car power, hot, cold, balancing, SoC taper) and never
\* more than maxChargerCurrent; as Math.min does, it returns NaN exactly
\* when a ceiling is NaN.
C2_MinimumOfCeilings ==
  \A m \in ChargerCurrents :
    \A r \in {limitedCurrentOf(pack, m)} :
      IF \E x \in CeilingSet(pack, m) : IsNaN(x)
        THEN IsNaN(r)
        ELSE /\ r \in CeilingSet(pack, m)
             /\ \A x \in CeilingSet(pack, m) : r <= x
             /\ r <= m * AmpUnit

\* After a batch of ticks the SoC taper is the binding ceiling, below the
\* charger's current.
C2_Witness ==
  /\ lastOp = "callback"
  /\ Len(pack.cells) > 0
  /\ limitedCurrentOf(pack, sim._chargerMaxCurrent)
       = socLimit(pack, sim._chargerMaxCurrent)
  /\ limitedCurrentOf(pack, sim._chargerMaxCurrent)
       < cRateLimit(pack)
  /\ limitedCurrentOf(pack, sim._chargerMaxCurrent)
       < sim._chargerMaxCurrent * AmpUnit

\* C3: reset() after any sequence of ticks gives what was observed right
\* after construction: every cell's state of charge and temperature, the
\* average SoC, elapsed time 0 and a history of at most one entry.
C3_ResetRestoresConstruction ==
  lastOp = "reset" =>
    \A fresh \in {NewBatteryPack(opts, opts.seed)} :
      /\ \A i \in DOMAIN pack.cells :
           /\ pack.cells[i].soc = fresh.cells[i].soc
           /\ pack.cells[i].temperature = fresh.cells[i].temperature
      /\ averageSoc(pack) = averageSoc(fresh)
      /\ sim._elapsedTime = 0
      /\ Len(sim._dataPoints) <= 1

\* C4: stop() on a stopped driver and start() on a running driver change
\* neither the driver (running flag, elapsed time, history) nor the pack
\* nor the number of scheduled continuations.
C4_RedundantCallsChangeNothing ==
  [][ ((sim._isRunning /\ Start) \/ (~sim._isRunning /\ Stop))
        => UNCHANGED << pack, sim, pending >> ]_vars

\* start() was called on a running driver that has ticked and has a
\* continuation scheduled.
C4_Witness ==
  /\ lastOp = "start:running"
  /\ sim._isRunning
  /\ pending > 0
  /\ sim._elapsedTime > 0

RECURSIVE FreeRun(_, _)
FreeRun(st, n) ==
  IF n <= 0 THEN st
  ELSE IF n = 1 THEN Step(st, NoJitter)
  ELSE CHOOSE r \in { FreeRun(half, n - n \div 2) :
                        half \in {FreeRun(st, n \div 2)} } : TRUE

IsFull(p) == ~IsNaN(averageSoc(p)) /\ averageSoc(p) >= 100 * PctUnit

\* C6: in every state a full pack (average SoC >= 100 %) has a stopped
\* driver; the operation whose tick fills the pack runs no tick after that
\* one (one tick fewer would not have filled the pack) and schedules no
\* continuation.
C6_FullPackStopsDriver ==
  [][ /\ IsFull(pack') => ~sim'._isRunning
      /\ (~IsFull(pack) /\ IsFull(pack')) =>
           /\ sim'._elapsedTime > sim._elapsedTime
           /\ ~IsFull(FreeRun([pack |-> pack, sim |-> sim],
                              sim'._elapsedTime - sim._elapsedTime - 1).pack)
           /\ pending' <= pending
           /\ (\E d \in WallDeltas : Callback(d, NoJitter))
                => pending' = pending - 1 ]_vars

\* A callback's batch filled the pack before its last planned tick: the
\* driver is stopped and nothing is scheduled.
C6_Witness ==
  /\ lastOp = "callback"
  /\ IsFull(pack)
  /\ ~sim._isRunning
  /\ pending = 0
  /\ sim._elapsedTime % ((HiccupMs * 100) \div 1000) > 1

\* C7: between operations (start, stop, reset, setTimeAcceleration,
\* callbacks of any number of ticks) the history never holds more than 1000
\* entries.
C7_HistoryBounded == Len(sim._dataPoints) <= 1000

\* More than 1000 ticks have run since the last reset and the history has
\* grown, but not beyond 1000 entries.
C7_Witness ==
  /\ sim._elapsedTime > 1000 * _timeStep
  /\ Len(sim._dataPoints) > 1
  /\ Len(sim._dataPoints) <= 1000

\* 100 * sum(SoC * capacity * voltage) / sum(capacity * voltage), in
\* 1/PctUnit percent.
EnergyWeightedAvg(cells) ==
  MulDiv(SumSeq([i \in DOMAIN cells |->
                   cells[i].soc * _capacity * CellVoltage(cells[i])]),
         (100 * PctUnit) \div SocUnit,
         SumSeq([i \in DOMAIN cells |-> _capacity * CellVoltage(cells[i])]))

\* The energy-weighted quotient and the arithmetic mean of the cells' SoC
\* are different rationals (the common factor capacity cancelled).
WeightedDiffersFromMean(cells) ==
  SumSeq([i \in DOMAIN cells |-> cells[i].soc * CellVoltage(cells[i])])
      * Len(cells)
    # SumSeq([i \in DOMAIN cells |-> cells[i].soc])
        * SumSeq([i \in DOMAIN cells |-> CellVoltage(cells[i])])

\* C8: once a tick has recomputed it, the pack's average SoC equals
\* 100 * sum(SoC * capacity * voltage) / sum(capacity * voltage) over the
\* cells, and that quotient is not the arithmetic mean of the cells' SoC
\* whenever two cells differ in SoC.
C8_EnergyWeightedAverage ==
  (sim._elapsedTime > 0 /\ Len(pack.cells) > 0) =>
    /\ pack._avgSoc = EnergyWeightedAvg(pack.cells)
    /\ (\E i, j \in DOMAIN pack.cells : pack.cells[i].soc # pack.cells[j].soc)
         => WeightedDiffersFromMean(pack.cells)

\* After a batch of ticks two cells differ in SoC and the stored average is
\* visibly not the arithmetic mean.
C8_Witness ==
  /\ lastOp = "callback"
  /\ Len(pack.cells) > 0
  /\ \E i, j \in DOMAIN pack.cells : pack.cells[i].soc # pack.cells[j].soc
  /\ pack._avgSoc = EnergyWeightedAvg(pack.cells)
  /\ pack._avgSoc # AvgSocArithmetic(pack.cells)

\* C9: a pack constructed for a positive capacity has at least one parallel
\* string and cellsInSeries * cellsInParallel cells, and the three numbers
\* stay what construction made them.
C9_CellCountsFixed ==
  opts.totalWh > 0 =>
    /\ pack._cellsInParallel >= 1
    /\ Len(pack.cells) = pack._cellsInSeries * pack._cellsInParallel
    /\ pack._cellsInSeries = CtorCellsInSeries(opts.systemVoltage)
    /\ pack._cellsInParallel
         = CtorCellsInParallel(opts.totalWh, opts.systemVoltage)

\* C10: no pack without cells is ever handed to a caller, and none is
\* ticked by a driver.
C10_NoPackWithoutCells == Len(pack.cells) > 0

\* Temperatures above the hot threshold, in ascending order.
HotTemps ==
  << 41 * TempUnit, 50 * TempUnit, 60 * TempUnit, 65 * TempUnit,
     70 * TempUnit, 90 * TempUnit >>

\* The pack with the temperature of its first cell set to t and that of its
\* second cell lowered by as much: the sum, hence the average temperature,
\* and every other input of calculateChargingCurrent are unchanged.
WithHottestCell(p, t) ==
  [p EXCEPT !.cells[1].temperature = t,
            !.cells[2].temperature =
               p.cells[1].temperature + p.cells[2].temperature - t]

\* t is the maximum temperature of WithHottestCell(p, t).
IsHottest(p, t) ==
  /\ Len(p.cells) >= 2
  /\ maxTemperature(WithHottestCell(p, t)) = t
  /\ averageTemperature(WithHottestCell(p, t)) = averageTemperature(p)

\* C11: with maxChargerCurrent and every other input fixed, the current
\* returned by calculateChargingCurrent does not increase when the maximum
\* temperature rises above 40 degC: for T1 <= T2 the current at T2 is at
\* most the current at T1.
C11_HotLimitMonotone ==
  \A m \in {sim._chargerMaxCurrent} :
    \A k \in 1..(Len(HotTemps) - 1) :
      (IsHottest(pack, HotTemps[k]) /\ IsHottest(pack, HotTemps[k + 1])) =>
        limitedCurrentOf(WithHottestCell(pack, HotTemps[k + 1]), m)
          <= limitedCurrentOf(WithHottestCell(pack, HotTemps[k]), m)

\* After a batch of ticks the hot ceiling binds: a higher maximum
\* temperature gives a strictly lower current, down to 0 at 65 degC.
C11_Witness ==
  /\ lastOp = "callback"
  /\ IsHottest(pack, HotTemps[1])
  /\ limitedCurrentOf(WithHottestCell(pack, HotTemps[2]), sim._chargerMaxCurrent)
       < limitedCurrentOf(WithHottestCell(pack, HotTemps[1]),
                          sim._chargerMaxCurrent)
  /\ limitedCurrentOf(WithHottestCell(pack, HotTemps[6]), sim._chargerMaxCurrent)
       = 0

\* Temperatures below the cold threshold, down to absolute zero.
ColdTemps ==
  { 0 - 273 * TempUnit, 0 - 40 * TempUnit, 0 - 5 * TempUnit, 0,
    10 * TempUnit, 20 * TempUnit - 1 }

\* The pack with every cell at temperature t.
WithTemperature(p, t) ==
  [p EXCEPT !.cells = [i \in DOMAIN p.cells |->
                         [p.cells[i] EXCEPT !.temperature = t]]]

\* C12: for every average temperature below 20 degC, however low, and
\* every maxChargerCurrent > 0 the cold ceiling is strictly positive: it is at
\* least the floor factor 0.02 times maxChargerCurrent.
C12_ColdLimitPositive ==
  \A t \in ColdTemps \cup {averageTemperature(pack)} :
    \A q \in {WithTemperature(pack, t)} :
      (Len(pack.cells) > 0 /\ IsCold(q)) =>
        /\ averageTemperature(q) = t
        /\ \A m \in {1, sim._chargerMaxCurrent} :
             \A limit \in {coldTemperatureLimit(q, m)} :
               m > 0 => (limit > 0 /\ limit >= Scaled(m, Ppm \div 50))

\* A pack below 0 degC has charged during a callback with the cold ceiling
\* as its limit, and its current was positive.
C12_Witness ==
  /\ lastOp = "callback"
  /\ averageTemperature(pack) < 0
  /\ IsCold(pack)
  /\ pack._limitingFactor = "Temperature (cold)"
  /\ Len(sim._dataPoints) > 0
  /\ sim._dataPoints[Len(sim._dataPoints)].current > 0

\* The history h2 begins with the whole history h1, sample for sample.
KeepsSamples(h1, h2) ==
  /\ Len(h2) >= Len(h1)
  /\ \A i \in 1..Len(h1) : h2[i] = h1[i]

\* C13: stop() leaves the elapsed time, the history and the pack unchanged;
\* start() never decreases the elapsed time and never removes or rewrites a
\* sample that is already in the history.
C13_StopAndStartKeepTheRun ==
  [][ /\ Stop => /\ sim'._elapsedTime = sim._elapsedTime
                 /\ sim'._dataPoints = sim._dataPoints
                 /\ pack' = pack
      /\ Start => /\ sim'._elapsedTime >= sim._elapsedTime
                  /\ KeepsSamples(sim._dataPoints, sim'._dataPoints) ]_vars

\* A driver that ran, was stopped and was started again: its elapsed time
\* and its history are those of the first run and more.
C13_Witness ==
  /\ lastOp = "start"
  /\ sim._isRunning
  /\ sim._elapsedTime >= 2 * _timeStep
  /\ Len(sim._dataPoints) >= 2

\* C14: after BatteryPack.reset(), whatever happened before, the label reads
\* "Not charging", the balancing intensity is 0 and every cell's
\* heatingEnabled equals the batteryHeatingEnabled value the pack was
\* constructed with.
C14_ResetReappliesHeatingConfiguration ==
  lastOp = "reset" =>
    /\ limitingFactor(pack) = "Not charging"
    /\ pack._balancingIntensity = 0
    /\ \A i \in DOMAIN pack.cells :
         pack.cells[i].heatingEnabled = opts.batteryHeatingEnabled

\* The part of C14 that reset() does establish: label, balancing intensity,
\* and the cells' heatingEnabled equal to the pack's current flag.
C14_ResetReappliesCurrentFlag ==
  lastOp = "reset" =>
    /\ limitingFactor(pack) = "Not charging"
    /\ pack._balancingIntensity = 0
    /\ \A i \in DOMAIN pack.cells :
         pack.cells[i].heatingEnabled = pack._batteryHeatingEnabled

FirstTicks == 5

\* The average temperature rises strictly on each of the first n ticks
\* (without random variation) of a newly constructed pack and driver.
StrictlyWarming(o, n) ==
  \A st0 \in {[pack |-> NewBatteryPack(o, o.seed),
                sim |-> NewChargingSimulation(NewBatteryPack(o, o.seed),
                                              o.chargerType)]} :
    \A k \in 1..n :
      averageTemperature(FreeRun(st0, k).pack)
        > averageTemperature(FreeRun(st0, k - 1).pack)

\* C16: a pack constructed at -5 degC with batteryHeatingEnabled warms
\* strictly on each of the first N ticks, while the same configuration with
\* heating disabled does not show a strictly increasing temperature.
C16_OnlyHeatingWarmsColdPack ==
  (opts.initialTemperature = 0 - 5 * TempUnit /\ opts.batteryHeatingEnabled) =>
    /\ StrictlyWarming(opts, FirstTicks)
    /\ ~StrictlyWarming([opts EXCEPT !.batteryHeatingEnabled = FALSE],
                        FirstTicks)

\* C16 as amended: the heated pack, as constructed, warms strictly on each
\* of the first N ticks and ends warmer than the same configuration with
\* heating disabled (which, being charged, may warm as well).
C16_HeatedPackWarms ==
  (lastOp = "new" /\ opts.initialTemperature = 0 - 5 * TempUnit
     /\ opts.batteryHeatingEnabled) =>
    /\ StrictlyWarming(opts, FirstTicks)
    /\ \A o2 \in {[opts EXCEPT !.batteryHeatingEnabled = FALSE]} :
         \A st1 \in {[pack |-> NewBatteryPack(opts, opts.seed), sim |-> sim]} :
           \A st2 \in {[pack |-> NewBatteryPack(o2, o2.seed), sim |-> sim]} :
             averageTemperature(FreeRun(st1, FirstTicks).pack)
               > averageTemperature(FreeRun(st2, FirstTicks).pack)

\* The heated pack constructed at -5 degC has run three ticks without random
\* variation (one in start(), two in a callback) and is where three ticks
\* in a row take the constructed pack, above its initial temperature.
C16_Witness ==
  /\ lastOp = "callback"
  /\ opts.initialTemperature = 0 - 5 * TempUnit
  /\ opts.batteryHeatingEnabled
  /\ jitters = 0
  /\ sim._elapsedTime = 3 * _timeStep
  /\ \A st0 \in {[pack |-> NewBatteryPack(opts, opts.seed),
                   sim |-> NewChargingSimulation(
                             NewBatteryPack(opts, opts.seed), opts.chargerType)]} :
       /\ pack = FreeRun(st0, 3).pack
       /\ averageTemperature(pack) > averageTemperature(st0.pack)

\* C17: under every interleaving of start, stop, setTimeAcceleration and
\* callbacks at most one continuation is pending: stop() followed by start()
\* before the old continuation has fired does not leave two live chains.
C17_AtMostOneContinuation == pending <= 1

\* What setTimeAcceleration(a) does besides the running flag: on a running
\* driver the factor is a, the wall-clock reference is the moment of the call
\* and at most one tick has run; on a stopped driver only the factor changes;
\* the callback right after the call on a running driver runs no more ticks
\* than the wall time since the call, multiplied by a, pays for.
AccelerationChangeRecalibrates ==
  /\ \A a \in Accelerations : SetTimeAcceleration(a) =>
        IF sim._isRunning
          THEN /\ sim'._timeAcceleration = a
               /\ sim'._lastUpdateTime = now
               /\ sim'._elapsedTime - sim._elapsedTime <= _timeStep
          ELSE /\ sim' = [sim EXCEPT !._timeAcceleration = a]
               /\ pack' = pack
               /\ pending' = pending
  /\ (lastOp = "setTimeAcceleration" /\ sim._isRunning /\ lastOp' = "callback") =>
        sim'._elapsedTime - sim._elapsedTime
          <= stepsToRunOf(now' - now, sim._timeAcceleration) * _timeStep

\* C18: setTimeAcceleration(a) on a running driver leaves it running with
\* factor a and moves the wall-clock reference to the moment of the call, so
\* that the next callback's budget counts only the wall time since the call,
\* multiplied by a, and no burst of ticks follows; on a stopped driver it
\* only changes the factor and runs no tick.
C18_AccelerationChangeKeepsRunning ==
  [][ /\ AccelerationChangeRecalibrates
      /\ \A a \in Accelerations :
           (SetTimeAcceleration(a) /\ sim._isRunning) => sim'._isRunning ]_vars

\* C18 as amended: the driver stays running unless the one tick that the
\* restart executes fills the pack, in which case it is stopped.
C18_AccelerationChangeRestarts ==
  [][ /\ AccelerationChangeRecalibrates
      /\ \A a \in Accelerations :
           (SetTimeAcceleration(a) /\ sim._isRunning) =>
             (sim'._isRunning <=> ~IsFull(pack')) ]_vars

\* The factor of a running driver was changed some time after its last
\* callback, and the tick of the restart filled the pack and stopped it.
C18_Witness ==
  /\ lastOp = "setTimeAcceleration"
  /\ ~sim._isRunning
  /\ IsFull(pack)
  /\ sim._lastUpdateTime = now
  /\ pending > 0

\* C19: a callback that finds the driver running executes
\* max(1, floor(wallDelta * timeAcceleration / stepSize)) ticks one after
\* another, fewer only if the pack becomes full; each tick advances the
\* elapsed time by exactly stepSize; the callback then requests exactly one
\* further callback if the driver is still running, and none otherwise.
C19_CallbackRunsItsBudget ==
  [][ lastOp' = "callback" =>
        \A n \in {Max2(1, ((now' - sim._lastUpdateTime) * sim._timeAcceleration)
                              \div (1000 * _timeStep))} :
          \A k \in {(sim'._elapsedTime - sim._elapsedTime) \div _timeStep} :
            /\ sim'._elapsedTime = sim._elapsedTime + k * _timeStep
            /\ 1 <= k /\ k <= n
            /\ k < n => IsFull(pack')
            /\ sim'._isRunning <=> ~IsFull(pack')
            /\ pending' = IF sim'._isRunning THEN pending ELSE pending - 1
            /\ jitters' = jitters =>
                 \A fr \in {FreeRun([pack |-> pack, sim |-> sim], k)} :
                   /\ pack' = fr.pack
                   /\ sim'._dataPoints = fr.sim._dataPoints ]_vars

\* A callback 2.5 s after the previous one has run 250 ticks at factor 100
\* and has requested its successor.
C19_Witness ==
  /\ lastOp = "callback"
  /\ sim._isRunning
  /\ sim._timeAcceleration = 100
  /\ sim._elapsedTime >= (250 + 1) * _timeStep
  /\ pending = 1

\* The number of ticks of a run from construction that are examined.
TicksChecked == 300

\* The whole-percent bucket of an average SoC.
WholePercent(soc) == soc \div PctUnit

\* The SoC label of the last sample of a history; the samples that ticks
\* appended are all but the first, which the constructor or reset() wrote.
LastTickLabel(h) == h[Len(h)].soc

\* One tick from st to st1 records properly: it keeps the history and
\* appends at most one sample; when the history already ends with a sample
\* of a tick, it appends only if the whole-percent average SoC after the
\* tick is past that sample's percentage (so a tick that stays in a
\* recorded bucket appends none), and the new label is greater than the
\* last one.
TickRecordsProperly(st, st1) ==
  /\ KeepsSamples(st.sim._dataPoints, st1.sim._dataPoints)
  /\ Len(st1.sim._dataPoints) <= Len(st.sim._dataPoints) + 1
  /\ (Len(st1.sim._dataPoints) > Len(st.sim._dataPoints)
        /\ Len(st.sim._dataPoints) >= 2) =>
       /\ WholePercent(averageSoc(st1.pack)) * PctUnit
            > LastTickLabel(st.sim._dataPoints)
       /\ LastTickLabel(st1.sim._dataPoints)
            > LastTickLabel(st.sim._dataPoints)

\* n ticks in a row from st record properly, each of them.
RECURSIVE TicksRecordProperly(_, _)
TicksRecordProperly(st, n) ==
  IF n <= 0 THEN TRUE
  ELSE IF n = 1 THEN TickRecordsProperly(st, Step(st, NoJitter))
  ELSE /\ TicksRecordProperly(st, n \div 2)
       /\ \A half \in {FreeRun(st, n \div 2)} :
            TicksRecordProperly(half, n - n \div 2)

CeilingLabels ==
  << "Charger", "C-rate", "Car", "Temperature (hot)", "Temperature (cold)",
     "Cell balancing", "SoC" >>

\* The order in which determineLimitingFactor tests the ceilings, and the
\* order with the SoC ceiling ahead of the balancing ceiling, as positions
\* in Ceilings.
BalancingBeforeSoc == << 1, 2, 3, 4, 5, 6, 7 >>
SocBeforeBalancing == << 1, 2, 3, 4, 5, 7, 6 >>

\* The label of the first ceiling in the given order that lies within
\* 0.1 A of the minimum of the ceilings c.
FirstNear(c, order) ==
  LET hits == { k \in DOMAIN order : Near(MathMin(c), c[order[k]]) }
  IN IF hits = {} THEN "Unknown limit"
     ELSE CeilingLabels[order[CHOOSE k \in hits : \A j \in hits : k <= j]]

\* C21 as stated: the label that calculateChargingCurrent stores is that of
\* the first ceiling, in the order charger, C-rate, car power, hot, cold,
\* SoC taper, balancing, within 0.1 A of the returned minimum, so that a tie
\* of the SoC and the balancing ceilings is labelled "SoC".  The code tests
\* the balancing ceiling first.
C21_LabelSocBeforeBalancing ==
  \A c \in {Ceilings(pack, sim._chargerMaxCurrent)} :
    calculateChargingCurrent(pack, sim._chargerMaxCurrent)._limitingFactor
      = FirstNear(c, SocBeforeBalancing)

\* C21, amended: the label is that of the first ceiling within 0.1 A of the
\* returned minimum in the order charger, C-rate, car power, hot, cold,
\* balancing, SoC taper; a tie of the balancing and the SoC ceilings is
\* labelled "Cell balancing".
C21_LabelBalancingBeforeSoc ==
  \A c \in {Ceilings(pack, sim._chargerMaxCurrent)} :
    calculateChargingCurrent(pack, sim._chargerMaxCurrent)._limitingFactor
      = FirstNear(c, BalancingBeforeSoc)

\* the balancing and the SoC ceilings differ and are both within 0.1 A of
\* the current of a running driver's next tick
C21_Witness ==
  \E c \in {Ceilings(pack, sim._chargerMaxCurrent)} :
    /\ sim._isRunning
    /\ c[6] # c[7]
    /\ Near(MathMin(c), c[6])
    /\ Near(MathMin(c), c[7])
    /\ \A k \in 1..5 : ~Near(MathMin(c), c[k])

\* The pack as the balancing pass of the next tick finds it: the limit
\* calculated, every cell charged and warmed (no random variation).
EnteringBalancing(p, maxChargerCurrent) ==
  updateTemperature(
    chargeCells(calculateChargingCurrent(p, maxChargerCurrent),
                limitedCurrentOf(p, maxChargerCurrent), _timeStep),
    limitedCurrentOf(p, maxChargerCurrent), _timeStep, NoJitter)

\* maxSoc - minSoc over the cells and the limit 0.1 - averageSoc / 1000 of
\* balanceCells, both in 1/Ppm of the 0-1 scale
SocSpread(p) ==
  (MaxSeq([i \in DOMAIN p.cells |-> p.cells[i].soc])
     - MinSeq([i \in DOMAIN p.cells |-> p.cells[i].soc])) * (Ppm \div SocUnit)

ActivationLimit(p) ==
  Ppm \div 10 - (averageSoc(p) * (Ppm \div 1000)) \div PctUnit

Activates(p) == Len(p.cells) > 0 /\ SocSpread(p) > ActivationLimit(p)

\* the average SoC the pass reads, in 1/Ppm of the 0-1 scale
AverageSocFraction(p) == (averageSoc(p) * (Ppm \div PctUnit)) \div 100

\* C22 as stated: in a balancing pass that activates, a cell is bled down by
\* the balancing intensity and flagged wasBalanced exactly when its SoC
\* exceeds average SoC plus activation threshold, all three on the 0-1
\* scale; every other cell keeps its SoC and gets wasBalanced = FALSE.
\* The code adds the 0-1 threshold to the average in percent.
C22_BalancedIffAboveAveragePlusThreshold ==
  \A q \in {EnteringBalancing(pack, sim._chargerMaxCurrent)} :
    Activates(q) =>
      \A r \in {balanceCells(q)} :
        \A i \in DOMAIN q.cells :
          IF q.cells[i].soc * (Ppm \div SocUnit)
               > AverageSocFraction(q) + ActivationLimit(q)
            THEN /\ r.cells[i].wasBalanced
                 /\ r.cells[i].soc
                      = ClampSoc(q.cells[i].soc * (Ppm \div SocUnit)
                                   - r._balancingIntensity)
            ELSE /\ ~r.cells[i].wasBalanced
                 /\ r.cells[i].soc = q.cells[i].soc

\* One pack charge step as a sequence: Cell.updateCharge once for every
\* cell with the current of one parallel group, then the balancing pass,
\* then Cell.updateTemperature once for every cell.
ChargeBalanceWarm(p, current, secs, jit) ==
  IF Len(p.cells) = 0 THEN balanceCells(p)
  ELSE
  LET charged == [p EXCEPT !.cells = [i \in DOMAIN p.cells |->
                    CellUpdateCharge(p.cells[i],
                                     current \div p._cellsInParallel, secs)]]
      balanced == balanceCells(charged)
  IN [balanced EXCEPT !.cells = [i \in DOMAIN balanced.cells |->
        CellUpdateTemperature(balanced.cells[i],
                              current \div p._cellsInParallel, secs,
                              p._coolingPower,
                              IF jit.cell = i THEN jit.delta ELSE 0)]]

\* C23: the loops of the pack's charge step visit every cell exactly once,
\* and the step leaves the pack as charging every cell once with the
\* current of one parallel group, then the balancing pass, then one thermal
\* update per cell leave it.
C23_StepChargesBalancesWarmsEachCellOnce ==
  \A current \in {limitedCurrentOf(pack, sim._chargerMaxCurrent)} :
    ~IsNaN(current) =>
      /\ \A i \in DOMAIN pack.cells : CellVisits(pack, i) = 1
      /\ \A jit \in {NoJitter, [cell |-> 1, delta |-> TempUnit \div 4]} :
           updateCharge(pack, current, _timeStep, jit)
             = ChargeBalanceWarm(pack, current, _timeStep, jit)

\* a running driver on a pack of more than one parallel string whose next
\* charge step charges and warms every cell and bleeds some cell down
C23_Witness ==
  \E q \in {updateCharge(pack, limitedCurrentOf(pack, sim._chargerMaxCurrent), _timeStep, NoJitter)} :
    /\ sim._isRunning
    /\ pack._cellsInParallel > 1
    /\ q._balancingIntensity > 0
    /\ \E i \in DOMAIN q.cells : q.cells[i].wasBalanced
    /\ \A i \in DOMAIN q.cells :
         /\ q.cells[i].charge > pack.cells[i].charge
         /\ q.cells[i].temperature # pack.cells[i].temperature

\* C24 as stated: wasBalanced is true only for a cell that the balancing
\* pass of the latest tick bled down; after a tick whose pass did not
\* activate, and after reset (both leave the balancing intensity 0), no
\* cell is flagged.  The pass that does not activate and Cell.reset leave
\* the flags of an earlier tick in place.
C24_NoFlagWithoutBalancing ==
  pack._balancingIntensity = 0 =>
    \A i \in DOMAIN pack.cells : ~pack.cells[i].wasBalanced

\* C25 as stated: in every state that can be observed (after construction,
\* after the ticks of an operation, after reset) the value the averageSoc
\* getter returns is the energy-weighted average of the cells' present SoC
\* values.  The getter returns a field that reset sets to 0 while it sets
\* every cell's SoC to 0.1.  (A pack without cells has no average to
\* recompute and is left out.)
C25_AverageSocIsCurrent ==
  Len(pack.cells) > 0 => averageSoc(pack) = calculateAvgSoc(pack.cells)

\* C26 as stated: after every operation that writes a cell (construction,
\* updateCharge, the balancing pass, reset) the cell's stateOfCharge is its
\* stored charge divided by its capacity.  The stateOfCharge setter used by
\* the balancing pass and Cell.reset write the SoC and leave the charge.
C26_SocIsChargeOverCapacity ==
  \A i \in DOMAIN pack.cells :
    pack.cells[i].soc = MulDiv(pack.cells[i].charge, SocUnit, capacityUnits)

\* C27: in every reachable pack state and for every maxChargerCurrent >= 0
\* the current calculateChargingCurrent returns is never negative: for a
\* pack with cells it is a number >= 0, and so is each of the seven
\* ceilings, the balancing ceiling included (for a pack without cells it
\* is NaN, which charges and discharges nothing).
C27_CurrentNeverNegative ==
  \A m \in ChargerCurrents :
    \A c \in {Ceilings(pack, m)} :
      IF Len(pack.cells) = 0 THEN IsNaN(MathMin(c))
      ELSE /\ ~IsNaN(MathMin(c))
           /\ MathMin(c) >= 0
           /\ \A k \in DOMAIN c : c[k] >= 0

\* a running driver whose next current is the balancing ceiling, at less
\* than half of the charger's current
C27_Witness ==
  \E c \in {Ceilings(pack, sim._chargerMaxCurrent)} :
    /\ sim._isRunning
    /\ pack._balancingIntensity > 0
    /\ MathMin(c) = c[6]
    /\ c[6] < c[7]
    /\ 2 * c[6] < c[1]

\* The pack's heating flag and the flag of every cell agree.
HeatingFlagsAgree(p) ==
  \A i \in DOMAIN p.cells :
    p.cells[i].heatingEnabled = p._batteryHeatingEnabled

\* C28: the pack's batteryHeatingEnabled and every cell's heatingEnabled
\* agree in every state; a current-limit calculation on a pack whose
\* average temperature is 20 degC or more leaves heating off (pack and
\* cells), one on a colder pack leaves it as it is, so an operation that
\* ticks a pack of 20 degC or more ends with heating off; and once heating
\* is off no operation (tick, stop, start, acceleration change, reset)
\* switches it on again.
C28_HeatingOffStaysOff ==
  [][ /\ HeatingFlagsAgree(pack')
      /\ \A q \in {calculateChargingCurrent(pack, sim._chargerMaxCurrent)} :
           /\ HeatingFlagsAgree(q)
           /\ q._batteryHeatingEnabled
                = (pack._batteryHeatingEnabled /\ IsCold(pack))
      /\ (sim'._elapsedTime > sim._elapsedTime /\ ~IsCold(pack))
           => ~pack'._batteryHeatingEnabled
      /\ ~pack._batteryHeatingEnabled => ~pack'._batteryHeatingEnabled ]_vars

\* a pack configured with heating, switched off by a tick at 20 degC or
\* more, has been reset: heating is still off in the pack and in its cells
C28_Witness ==
  /\ lastOp = "reset"
  /\ opts.batteryHeatingEnabled
  /\ sim._elapsedTime = 0
  /\ Len(pack.cells) > 0
  /\ ~IsCold(pack)
  /\ ~pack._batteryHeatingEnabled
  /\ \A i \in DOMAIN pack.cells : ~pack.cells[i].heatingEnabled

\* C29 as stated: after reset() the counter of whole-percent buckets
\* (_fullPointSoC) is back at its initial value 0, so that the next run
\* records its samples from 0 % again.  reset() clears the history and the
\* elapsed time and leaves the counter.
C29_ResetRestoresBucketCounter ==
  lastOp = "reset" => sim._fullPointSoC = 0

\* A running driver on a pack that is not full and that a tick leaves
\* exactly as it is, whatever random temperature variation is drawn: every
\* later tick finds the same pack, so the pack never becomes full.
Stalled(st) ==
  /\ st.sim._isRunning
  /\ ~IsFull(st.pack)
  /\ \A jit \in {NoJitter, [cell |-> 1, delta |-> TempUnit \div 4],
                  [cell |-> 1, delta |-> 0 - TempUnit \div 4]} :
       Step(st, jit).pack = st.pack

\* C30 as stated: a started driver whose callbacks keep firing, with no
\* stop, reset or reconfiguration, eventually has a pack at the full
\* threshold and becomes Stopped; so no driver with a callback pending is
\* ever running on a pack that its ticks cannot change.  On the pack
\* without cells the average SoC is NaN on every tick and the pack stays as
\* it is.
C30_RunningDriverIsNeverStalled ==
  ~(pending > 0 /\ Stalled([pack |-> pack, sim |-> sim]))
====
